---- MODULE Spec2Model ----
(***************************************************************************)
(* Student Finance Manager (src/app.py): the in-memory ledger of           *)
(* FinanceManager, its reports, and its JSON persistence (save / load).     *)
(*                                                                         *)
(* Representation.                                                         *)
(*  - A Python dict (insertion ordered) is a sequence of [key, val]         *)
(*    entries; FinanceManager.students is such a sequence of Students.      *)
(*  - A JSON object / Python dict read from the file is a TLA+ record whose *)
(*    DOMAIN is the set of keys present in the object.                      *)
(*  - A float amount is an integer number of thousandths n, standing for    *)
(*    the IEEE-754 double nearest to n/1000.  round(x, 2) is computed as    *)
(*    CPython computes it: correct rounding of the exact binary value,      *)
(*    which differs from n/1000 by the representation error FloatErr(n).    *)
(*    Float addition in balance() is taken as exact (true for the          *)
(*    magnitudes of the model, far below 2^53 thousandths).                 *)
(*  - An optional argument (date = None) is a sequence of length 0 or 1.    *)
(*  - The calls are made by the command loop of run_cli; pc tells whether   *)
(*    its process is running, has left the loop, or ended on an exception.  *)
(***************************************************************************)
EXTENDS Integers, Sequences, FiniteSets, TLC

VARIABLES
    students,   \* FinanceManager.students: sequence of [key, val] entries
    file,       \* the content of the file at DATA_FILE
    last,       \* the last call made on the manager: [op, id, ret]
    out,        \* what the last call returned besides a bool / printed
    pc          \* the process running run_cli: "running", "exited" (left
                \* the loop by choice 9) or "aborted" (unhandled exception)

vars == <<students, file, last, out, pc>>

-----------------------------------------------------------------------------
(* Bounds and input domains *)

\* most transactions the ledger holds in total before record_transaction
\* is no longer exercised
MaxTx == 2

Ids == {"S1", "S2"}
\* arguments of add_student: <<student_id, name>>
StudentInputs == { <<"S1", "Alice">>, <<"S1", "Bob">>, <<"S2", "Bob">> }
\* the value of datetime.now().strftime(DATE_FMT) when a call is made
Clock == {"2024-01-15"}

\* arguments of record_transaction: <<ttype, amount, description, date>>
TxInputs ==
    { <<"income",  1500505, "Income", <<"2024-01-10">> >>,
      <<"expense", 200000,  "Books",  <<"2024-01-15">> >>,
      <<"expense", 200000,  "Books",  << >> >>,
      <<"Income",  125,     "Gift",   <<"2024-01-15">> >> }

-----------------------------------------------------------------------------
(* Floats *)

RECURSIVE BitLen(_)
BitLen(q) == IF q = 0 THEN 0 ELSE 1 + BitLen(q \div 2)

\* Sign of (double nearest to n/1000) - n/1000, for n >= 0: the binary
\* expansion of n/1000 is produced bit by bit; r is the remainder (in
\* thousandths of the current bit), sig the number of significant bits
\* produced so far, lastbit the last one.  A double keeps 53 of them.
RECURSIVE FloatErrFrom(_, _, _)
FloatErrFrom(r, sig, lastbit) ==
    IF r = 0 THEN 0
    ELSE IF sig = 53
         THEN IF r > 500 THEN 1
              ELSE IF r < 500 THEN -1
              ELSE IF lastbit = 1 THEN 1 ELSE -1
         ELSE LET bit == IF 2 * r >= 1000 THEN 1 ELSE 0
              IN  FloatErrFrom((2 * r) % 1000,
                               IF sig > 0 \/ bit = 1 THEN sig + 1 ELSE 0,
                               bit)

FloatErr(n) == FloatErrFrom(n % 1000, BitLen(n \div 1000), (n \div 1000) % 2)

\* round(x, 2) of the double nearest to n/1000, in thousandths
RoundAbs(n) ==
    LET c == n \div 10
        d == n % 10
        e == FloatErr(n)
        up == \/ d > 5
              \/ d = 5 /\ e > 0
              \/ d = 5 /\ e = 0 /\ c % 2 = 1
    IN  10 * (IF up THEN c + 1 ELSE c)

round(n) == IF n < 0 THEN 0 - RoundAbs(0 - n) ELSE RoundAbs(n)

-----------------------------------------------------------------------------
(* Python dict, as a sequence of [key, val] entries in insertion order *)

DictKeys(d) == { d[i].key : i \in DOMAIN d }

\* position of key k, 0 when absent
DictIndex(d, k) ==
    IF k \in DictKeys(d) THEN CHOOSE i \in DOMAIN d : d[i].key = k ELSE 0

\* d[k] = v: an existing key keeps its position, a new key goes last
DictSet(d, k, v) ==
    IF DictIndex(d, k) = 0
    THEN Append(d, [key |-> k, val |-> v])
    ELSE [d EXCEPT ![DictIndex(d, k)] = [key |-> k, val |-> v]]

\* d.pop(k, None) on a present key: the others keep their order
DictPop(d, k) ==
    LET i == DictIndex(d, k)
    IN  IF i = 0 THEN d
        ELSE [j \in 1..(Len(d) - 1) |-> IF j < i THEN d[j] ELSE d[j + 1]]

-----------------------------------------------------------------------------
(* Data entities *)

Transaction(ttype, amount, description, date) ==
    [ttype |-> ttype, amount |-> amount,
     description |-> description, date |-> date]

Student(student_id, name, transactions) ==
    [student_id |-> student_id, name |-> name, transactions |-> transactions]

\* balance with the type of a transaction ignored
RECURSIVE SumAll(_)
SumAll(txs) == IF txs = << >> THEN 0 ELSE Head(txs).amount + SumAll(Tail(txs))

balance_IgnoresType(s) == SumAll(s.transactions)

\* Student.balance: every transaction that is not an income is subtracted
RECURSIVE BalanceFrom(_, _, _)
BalanceFrom(txs, i, bal) ==
    IF i > Len(txs) THEN bal
    ELSE BalanceFrom(txs, i + 1,
                     IF txs[i].ttype = "income"
                     THEN bal + txs[i].amount
                     ELSE bal - txs[i].amount)

balance(s) == BalanceFrom(s.transactions, 1, 0)

-----------------------------------------------------------------------------
(* FinanceManager: student management and transactions, as functions from  *)
(* the dict before the call to [students, ret] after it                    *)

\* find_student: the position of the Student found, 0 for None
find_student(d, student_id) == DictIndex(d, student_id)

\* add_student that files the student under its name
add_student_KeysByName(d, student_id, name) ==
    IF student_id \in DictKeys(d)
    THEN [students |-> d, ret |-> FALSE]
    ELSE [students |-> DictSet(d, name, Student(student_id, name, << >>)),
          ret |-> TRUE]

\* add_student without the test for an existing id
add_student_Overwrites(d, student_id, name) ==
    [students |-> DictSet(d, student_id, Student(student_id, name, << >>)),
     ret |-> TRUE]

add_student(d, student_id, name) ==
    IF student_id \in DictKeys(d)
    THEN [students |-> d, ret |-> FALSE]
    ELSE [students |-> DictSet(d, student_id, Student(student_id, name, << >>)),
          ret |-> TRUE]

\* remove_student that looks the student up (get) instead of popping it
remove_student_OnlyLooksUp(d, student_id) ==
    [students |-> d, ret |-> student_id \in DictKeys(d)]

\* remove_student that reports success whatever pop returned
remove_student_AlwaysTrue(d, student_id) ==
    [students |-> DictPop(d, student_id), ret |-> TRUE]

remove_student(d, student_id) ==
    [students |-> DictPop(d, student_id),
     ret |-> student_id \in DictKeys(d)]

\* record_transaction that stores the amount as given
record_transaction_NoRound(d, student_id, ttype, amount, description, date, today) ==
    LET i == find_student(d, student_id)
    IN  IF i = 0 THEN [students |-> d, ret |-> FALSE]
        ELSE IF ttype \notin {"income", "expense"}
        THEN [students |-> d, ret |-> FALSE]
        ELSE LET dt == IF date = << >> THEN today ELSE date[1]
                 tx == Transaction(ttype, amount, description, dt)
             IN  [students |->
                     [d EXCEPT ![i].val.transactions = Append(@, tx)],
                  ret |-> TRUE]

\* record_transaction without the test of ttype
record_transaction_NoTypeCheck(d, student_id, ttype, amount, description, date, today) ==
    LET i == find_student(d, student_id)
    IN  IF i = 0 THEN [students |-> d, ret |-> FALSE]
        ELSE LET dt == IF date = << >> THEN today ELSE date[1]
                 tx == Transaction(ttype, round(amount), description, dt)
             IN  [students |->
                     [d EXCEPT ![i].val.transactions = Append(@, tx)],
                  ret |-> TRUE]

\* record_transaction that inserts the transaction at the front
record_transaction_Prepends(d, student_id, ttype, amount, description, date, today) ==
    LET i == find_student(d, student_id)
    IN  IF i = 0 THEN [students |-> d, ret |-> FALSE]
        ELSE IF ttype \notin {"income", "expense"}
        THEN [students |-> d, ret |-> FALSE]
        ELSE LET dt == IF date = << >> THEN today ELSE date[1]
                 tx == Transaction(ttype, round(amount), description, dt)
             IN  [students |->
                     [d EXCEPT ![i].val.transactions = <<tx>> \o @],
                  ret |-> TRUE]

\* today is datetime.now() at the time of the call
record_transaction(d, student_id, ttype, amount, description, date, today) ==
    LET i == find_student(d, student_id)
    IN  IF i = 0 THEN [students |-> d, ret |-> FALSE]
        ELSE IF ttype \notin {"income", "expense"}
        THEN [students |-> d, ret |-> FALSE]
        ELSE LET dt == IF date = << >> THEN today ELSE date[1]
                 tx == Transaction(ttype, round(amount), description, dt)
             IN  [students |->
                     [d EXCEPT ![i].val.transactions = Append(@, tx)],
                  ret |-> TRUE]

-----------------------------------------------------------------------------
(* Reports *)

\* to_dict that writes the amount as a whole number
TransactionToDict_IntAmount(t) ==
    [ttype |-> t.ttype, amount |-> (t.amount \div 1000) * 1000,
     description |-> t.description, date |-> t.date]

\* Transaction.to_dict (dataclasses.asdict): a dict of the four fields
TransactionToDict(t) ==
    [ttype |-> t.ttype, amount |-> t.amount,
     description |-> t.description, date |-> t.date]

\* to_dict that leaves the transactions out
StudentToDict_NoTransactions(s) ==
    [student_id |-> s.student_id, name |-> s.name, transactions |-> << >>]

\* Student.to_dict
StudentToDict(s) ==
    [student_id |-> s.student_id, name |-> s.name,
     transactions |-> [j \in 1..Len(s.transactions) |->
                          TransactionToDict(s.transactions[j])]]

\* student_report: << >> for None, else the one report
student_report(d, student_id) ==
    LET i == find_student(d, student_id)
    IN  IF i = 0 THEN << >>
        ELSE << [student_id |-> d[i].val.student_id,
                 name |-> d[i].val.name,
                 balance |-> round(balance(d[i].val)),
                 transactions |->
                     [j \in 1..Len(d[i].val.transactions) |->
                         TransactionToDict(d[i].val.transactions[j])]] >>

\* all_students_summary that lists the most recently inserted student first
all_students_summary_Reversed(d) ==
    [i \in 1..Len(d) |->
        [student_id |-> d[Len(d) + 1 - i].val.student_id,
         name |-> d[Len(d) + 1 - i].val.name,
         balance |-> round(balance(d[Len(d) + 1 - i].val)),
         num_transactions |-> Len(d[Len(d) + 1 - i].val.transactions)]]

\* all_students_summary: one entry per value of the dict, in dict order
all_students_summary(d) ==
    [i \in 1..Len(d) |->
        [student_id |-> d[i].val.student_id,
         name |-> d[i].val.name,
         balance |-> round(balance(d[i].val)),
         num_transactions |-> Len(d[i].val.transactions)]]

-----------------------------------------------------------------------------
(* Persistence.  A file is [kind, doc]:                                    *)
(*   "absent"  no file at the path                                         *)
(*   "garbage" a file whose text json.load cannot parse                    *)
(*   "array"   a JSON document whose top level is a list                   *)
(*   "object"  a JSON document whose top level is the object doc           *)

Absent == [kind |-> "absent", doc |-> << >>]
Garbage == [kind |-> "garbage", doc |-> << >>]
Array == [kind |-> "array", doc |-> << >>]
Object(doc) == [kind |-> "object", doc |-> doc]

\* save that opens the file for appending: the document is written after
\* what the file already holds, which is one JSON document only when
\* there was no file
save_Appends(d) ==
    IF file.kind = "absent"
    THEN Object([students |-> [i \in 1..Len(d) |-> StudentToDict(d[i].val)]])
    ELSE Garbage

\* save: json.dump of {"students": [s.to_dict() for s in values()]},
\* the file being opened for writing (truncated) first
save(d) ==
    Object([students |-> [i \in 1..Len(d) |-> StudentToDict(d[i].val)]])

TxFields == {"ttype", "amount", "description", "date"}

\* Transaction(**t) preceded by a check of the type
TxAccepted_ValidatesTtype(t) ==
    DOMAIN t = TxFields /\ t.ttype \in {"income", "expense"}

\* Transaction(**t) succeeds exactly when the keys of t are the four fields
TxAccepted(t) == DOMAIN t = TxFields

\* the body of the for loop of load, from entry i on; acc is self.students.
\* An exception leaves self.students as built so far.
RECURSIVE LoadStudents(_, _, _)
LoadStudents(entries, i, acc) ==
    IF i > Len(entries) THEN [students |-> acc, ret |-> TRUE]
    ELSE LET s == entries[i]
             ts == IF "transactions" \in DOMAIN s THEN s.transactions ELSE << >>
         IN  IF \E j \in DOMAIN ts : ~TxAccepted(ts[j])
             THEN [students |-> acc, ret |-> FALSE]
             ELSE IF "student_id" \notin DOMAIN s \/ "name" \notin DOMAIN s
             THEN [students |-> acc, ret |-> FALSE]
             ELSE LET transactions ==
                          [j \in 1..Len(ts) |->
                              Transaction(ts[j].ttype, ts[j].amount,
                                          ts[j].description, ts[j].date)]
                      student == Student(s.student_id, s.name, transactions)
                  IN  LoadStudents(entries, i + 1,
                                   DictSet(acc, student.student_id, student))

\* load without self.students = {}: the entries are added to the ledger
load_Merges(d, f) ==
    IF f.kind = "absent"
    THEN [students |-> d, ret |-> FALSE, msg |-> "No data file found"]
    ELSE IF f.kind \in {"garbage", "array"}
    THEN [students |-> d, ret |-> FALSE, msg |-> "Failed to load data"]
    ELSE LET entries == IF "students" \in DOMAIN f.doc
                        THEN f.doc.students ELSE << >>
             r == LoadStudents(entries, 1, d)
         IN  [students |-> r.students, ret |-> r.ret,
              msg |-> IF r.ret THEN "Loaded data" ELSE "Failed to load data"]

\* load that empties self.students before the file is read and parsed
load_ClearsBeforeParse(d, f) ==
    IF f.kind = "absent"
    THEN [students |-> d, ret |-> FALSE, msg |-> "No data file found"]
    ELSE IF f.kind \in {"garbage", "array"}
    THEN [students |-> << >>, ret |-> FALSE, msg |-> "Failed to load data"]
    ELSE LET entries == IF "students" \in DOMAIN f.doc
                        THEN f.doc.students ELSE << >>
             r == LoadStudents(entries, 1, << >>)
         IN  [students |-> r.students, ret |-> r.ret,
              msg |-> IF r.ret THEN "Loaded data" ELSE "Failed to load data"]

\* load that starts from an empty ledger when there is no file
load_AbsentStartsFresh(d, f) ==
    IF f.kind = "absent"
    THEN [students |-> << >>, ret |-> FALSE, msg |-> "No data file found"]
    ELSE IF f.kind = "garbage"
    THEN [students |-> d, ret |-> FALSE, msg |-> "Failed to load data"]
    ELSE IF f.kind = "array"
    THEN [students |-> << >>, ret |-> FALSE, msg |-> "Failed to load data"]
    ELSE LET entries == IF "students" \in DOMAIN f.doc
                        THEN f.doc.students ELSE << >>
             r == LoadStudents(entries, 1, << >>)
         IN  [students |-> r.students, ret |-> r.ret,
              msg |-> IF r.ret THEN "Loaded data" ELSE "Failed to load data"]

\* load: [students, ret, msg], msg being the kind of line printed
load(d, f) ==
    IF f.kind = "absent"
    THEN [students |-> d, ret |-> FALSE, msg |-> "No data file found"]
    ELSE IF f.kind = "garbage"
    THEN [students |-> d, ret |-> FALSE, msg |-> "Failed to load data"]
    ELSE IF f.kind = "array"
    THEN [students |-> << >>, ret |-> FALSE, msg |-> "Failed to load data"]
    ELSE LET entries == IF "students" \in DOMAIN f.doc
                        THEN f.doc.students ELSE << >>
             r == LoadStudents(entries, 1, << >>)
         IN  [students |-> r.students, ret |-> r.ret,
              msg |-> IF r.ret THEN "Loaded data" ELSE "Failed to load data"]

-----------------------------------------------------------------------------
(* Files found at DATA_FILE when the manager is constructed *)

GoodTx == [ttype |-> "income", amount |-> 1500510,
           description |-> "Income", date |-> "2024-01-10"]
NoDateTx == [ttype |-> "income", amount |-> 1500510, description |-> "Income"]
ExtraTx == [ttype |-> "income", amount |-> 1500510, description |-> "Income",
            date |-> "2024-01-10", note |-> "x"]
NoTypeTx == [amount |-> 1500510, description |-> "Income",
             date |-> "2024-01-10"]
OddTx == [ttype |-> "transfer", amount |-> 5,
          description |-> "Gift", date |-> "2024-01-10"]

GoodEntry ==
    [student_id |-> "S2", name |-> "Bob", transactions |-> <<GoodTx, OddTx>>]

FileInputs ==
    { Absent, Garbage, Array,
      Object([version |-> 1]),
      Object([students |-> <<GoodEntry>>]),
      Object([students |-> <<GoodEntry, [student_id |-> "S1"]>>]),
      Object([students |-> <<[name |-> "Alice", transactions |-> << >>]>>]),
      Object([students |-> <<GoodEntry,
                 [student_id |-> "S1", name |-> "Alice",
                  transactions |-> <<NoDateTx>>]>>]),
      Object([students |-> <<[student_id |-> "S1", name |-> "Alice",
                              transactions |-> <<ExtraTx>>]>>]),
      Object([students |-> <<[student_id |-> "S1", name |-> "Alice",
                              transactions |-> <<NoTypeTx>>]>>]),
      Object([students |-> <<[student_id |-> "S1", name |-> "Alice",
                              transactions |-> <<GoodTx>>],
                             [student_id |-> "S1", name |-> "Bob"]>>]) }

-----------------------------------------------------------------------------
(* State machine *)

TotalTx(d) ==
    LET RECURSIVE Sum(_)
        Sum(i) == IF i = 0 THEN 0 ELSE Len(d[i].val.transactions) + Sum(i - 1)
    IN  Sum(Len(d))

Call(op, id, ret) == [op |-> op, id |-> id, ret |-> ret]

Init ==
    /\ students = << >>
    /\ file \in FileInputs
    /\ last = Call("init", "", TRUE)
    /\ out = << >>
    /\ pc = "running"

AddStudent(id, name) ==
    LET r == add_student(students, id, name)
    IN  /\ pc = "running"
        /\ students' = r.students
        /\ last' = Call("add_student", id, r.ret)
        /\ out' = << >>
        /\ UNCHANGED <<file, pc>>

RemoveStudent(id) ==
    LET r == remove_student(students, id)
    IN  /\ pc = "running"
        /\ students' = r.students
        /\ last' = Call("remove_student", id, r.ret)
        /\ out' = << >>
        /\ UNCHANGED <<file, pc>>

RecordTransaction(id, a, today) ==
    /\ pc = "running"
    /\ TotalTx(students) < MaxTx
    /\ LET r == record_transaction(students, id, a[1], a[2], a[3], a[4], today)
       IN  /\ students' = r.students
           /\ last' = Call("record_transaction", id, r.ret)
           /\ out' = << >>
    /\ UNCHANGED <<file, pc>>

StudentReport(id) ==
    /\ pc = "running"
    /\ last' = Call("student_report", id, student_report(students, id) # << >>)
    /\ out' = student_report(students, id)
    /\ UNCHANGED <<students, file, pc>>

AllStudentsSummary ==
    /\ pc = "running"
    /\ last' = Call("all_students_summary", "", TRUE)
    /\ out' = all_students_summary(students)
    /\ UNCHANGED <<students, file, pc>>

\* What a call of save does to the file.  When the filesystem accepts the
\* write the file is the dumped document; otherwise save raises: open
\* failed and the file is as it was, or the write failed after open had
\* truncated the file, which leaves text that is no JSON document.
SaveOutcomes(ok) ==
    IF ok THEN {save(students)} ELSE {file, Garbage}

\* choice 7: fm.save().  save returns None or raises: ret records that it
\* returned.  Nothing in save or run_cli catches the exception.
Save ==
    /\ pc = "running"
    /\ \E ok \in BOOLEAN :
          /\ file' \in SaveOutcomes(ok)
          /\ last' = Call("save", "", ok)
          /\ pc' = IF ok THEN "running" ELSE "aborted"
    /\ out' = << >>
    /\ UNCHANGED students

\* choice 9: fm.save(), then break.  students keeps the ledger the process
\* held when it ended.
Exit ==
    /\ pc = "running"
    /\ \E ok \in BOOLEAN :
          /\ file' \in SaveOutcomes(ok)
          /\ last' = Call("exit", "", ok)
          /\ pc' = IF ok THEN "exited" ELSE "aborted"
    /\ out' = << >>
    /\ UNCHANGED students

\* choice 8: fm.load()
Load ==
    LET r == load(students, file)
    IN  /\ pc = "running"
        /\ students' = r.students
        /\ last' = Call("load", "", r.ret)
        /\ out' = <<r.msg>>
        /\ UNCHANGED <<file, pc>>

\* run_cli at start: a new process with a new FinanceManager, then load
FreshLoad ==
    LET r == load(<< >>, file)
    IN  /\ students' = r.students
        /\ last' = Call("fresh_load", "", r.ret)
        /\ out' = <<r.msg>>
        /\ pc' = "running"
        /\ UNCHANGED file

Next ==
    \/ \E a \in StudentInputs : AddStudent(a[1], a[2])
    \/ \E id \in Ids : RemoveStudent(id)
    \/ \E id \in Ids, a \in TxInputs, today \in Clock :
          RecordTransaction(id, a, today)
    \/ \E id \in Ids : StudentReport(id)
    \/ AllStudentsSummary
    \/ Save
    \/ Load
    \/ Exit
    \/ FreshLoad

Spec == Init /\ [][Next]_vars

\* the manager of a session that never loads: the ledger is built by
\* add_student, remove_student and record_transaction alone
InitLedger ==
    /\ students = << >>
    /\ file = Absent
    /\ last = Call("init", "", TRUE)
    /\ out = << >>
    /\ pc = "running"

NextLedger ==
    \/ \E a \in StudentInputs : AddStudent(a[1], a[2])
    \/ \E id \in Ids : RemoveStudent(id)
    \/ \E id \in Ids, a \in TxInputs, today \in Clock :
          RecordTransaction(id, a, today)
    \/ \E id \in Ids : StudentReport(id)
    \/ AllStudentsSummary
    \/ Save

SpecLedger == InitLedger /\ [][NextLedger]_vars

-----------------------------------------------------------------------------
(* Properties *)

\* the Student stored under key k (k is a key of d)
At(d, k) == d[DictIndex(d, k)].val

RECURSIVE SumWhere(_, _)
SumWhere(txs, ttype) ==
    IF txs = << >> THEN 0
    ELSE (IF Head(txs).ttype = ttype THEN Head(txs).amount ELSE 0)
         + SumWhere(Tail(txs), ttype)

IncomeMinusExpense(s) ==
    round(SumWhere(s.transactions, "income")
          - SumWhere(s.transactions, "expense"))

\* C6: for a ledger built by record_transaction calls, the balance that
\* student_report and all_students_summary return for a student is the sum
\* of the stored income amounts minus the sum of the stored expense amounts,
\* rounded to 2 decimals, and 0 for a student without transactions.
C6_BalanceIsIncomeMinusExpense ==
    /\ (last.op = "student_report" /\ last.ret) =>
          /\ out[1].balance = IncomeMinusExpense(At(students, last.id))
          /\ (At(students, last.id).transactions = << >>) => out[1].balance = 0
    /\ (last.op = "all_students_summary") =>
          \A i \in DOMAIN students :
             \E j \in DOMAIN out :
                /\ out[j].student_id = students[i].val.student_id
                /\ out[j].balance = IncomeMinusExpense(students[i].val)
                /\ (students[i].val.transactions = << >>) => out[j].balance = 0

C6_Witness ==
    /\ last.op = "student_report"
    /\ last.ret
    /\ Len(out[1].transactions) = 2
    /\ out[1].transactions[1].ttype = "expense"
    /\ out[1].transactions[2].ttype = "income"
    /\ out[1].balance = 1300510

SameLedger(a, b) ==
    /\ DictKeys(a) = DictKeys(b)
    /\ \A k \in DictKeys(a) :
          /\ At(a, k).name = At(b, k).name
          /\ At(a, k).transactions = At(b, k).transactions
          /\ round(balance(At(a, k))) = round(balance(At(b, k)))

\* C1: a save that returned, followed by a load of the file into a fresh
\* FinanceManager, returns true and gives the same student ids and, per student, the same
\* name, the same transactions in the same order and the same balance.
C1_SaveLoadRoundTrip ==
    [][(last.op = "save" /\ last.ret /\ last'.op = "fresh_load") =>
          (last'.ret /\ SameLedger(students', students))]_vars

C1_Witness ==
    /\ last.op = "fresh_load"
    /\ last.ret
    /\ file = save(students)
    /\ Len(students) = 2
    /\ \A i \in DOMAIN students : Len(students[i].val.transactions) = 1

\* a document that parses as JSON but has not the structure of a ledger
Malformed(f) ==
    \/ f.kind = "array"
    \/ /\ f.kind = "object"
       /\ "students" \in DOMAIN f.doc
       /\ \E i \in DOMAIN f.doc.students :
             LET s == f.doc.students[i]
             IN  \/ "student_id" \notin DOMAIN s
                 \/ "name" \notin DOMAIN s
                 \/ /\ "transactions" \in DOMAIN s
                    /\ \E j \in DOMAIN s.transactions :
                          DOMAIN s.transactions[j] # TxFields

\* C2: a load of a file that parses as JSON but is malformed in structure
\* returns false and leaves the student mapping as it was before the call.
C2_MalformedLoadLeavesLedger ==
    [][(last'.op = "load" /\ Malformed(file)) =>
          (~last'.ret /\ students' = students)]_vars

\* C3: a load of a file that is not parseable JSON returns false and leaves
\* the student mapping as it was before the call.
C3_UnparseableLoadLeavesLedger ==
    [][(last'.op = "load" /\ file.kind = "garbage") =>
          (~last'.ret /\ students' = students)]_vars

C3_Witness ==
    /\ last.op = "load"
    /\ file.kind = "garbage"
    /\ ~last.ret
    /\ Len(students) = 2
    /\ TotalTx(students) > 0

\* C4: a load from a path where no file exists returns false and leaves the
\* student mapping as it was before the call, empty or not.
C4_AbsentLoadLeavesLedger ==
    [][(last'.op = "load" /\ file.kind = "absent") =>
          (~last'.ret /\ students' = students)]_vars

C4_Witness ==
    /\ last.op = "load"
    /\ file.kind = "absent"
    /\ ~last.ret
    /\ out = <<"No data file found">>
    /\ students # << >>
    /\ TotalTx(students) = MaxTx

\* C5: the value load returns when the file is absent differs from the
\* value it returns when the file exists but does not parse.
C5_AbsentDistinctFromParseFailure ==
    load(students, Absent).ret # load(students, Garbage).ret

\* C7: add_student returns true and inserts a student without transactions
\* exactly when the id is not in the ledger; on an id already present it
\* returns false and the ledger is unchanged.
C7_AddStudent ==
    [][(last'.op = "add_student") =>
          IF last'.id \in DictKeys(students)
          THEN ~last'.ret /\ students' = students
          ELSE /\ last'.ret
               /\ DictKeys(students') = DictKeys(students) \cup {last'.id}
               /\ At(students', last'.id).student_id = last'.id
               /\ At(students', last'.id).transactions = << >>
               /\ \A k \in DictKeys(students) :
                     At(students', k) = At(students, k)]_vars

\* the second of two add_student calls on one id, with another name
C7_Witness ==
    /\ last.op = "add_student"
    /\ ~last.ret
    /\ last.id = "S1"
    /\ At(students, "S1").name = "Alice"
    /\ At(students, "S1").transactions # << >>
    /\ Len(students) = 2

\* C8: remove_student on an id that is not in the ledger returns false and
\* leaves the ledger unchanged; on an id of the ledger it returns true,
\* removes that student and no other, and find_student then finds nothing.
C8_RemoveStudent ==
    [][(last'.op = "remove_student") =>
          IF last'.id \notin DictKeys(students)
          THEN ~last'.ret /\ students' = students
          ELSE /\ last'.ret
               /\ find_student(students', last'.id) = 0
               /\ DictKeys(students') = DictKeys(students) \ {last'.id}
               /\ \A k \in DictKeys(students') :
                     At(students', k) = At(students, k)]_vars

C8_Witness ==
    /\ last.op = "remove_student"
    /\ last.ret
    /\ find_student(students, last.id) = 0
    /\ Len(students) = 1
    /\ TotalTx(students) > 0

\* C9: record_transaction on an id that is not in the ledger, or with a
\* ttype that is neither "income" nor "expense", returns false and leaves
\* the ledger unchanged.
C9_RecordTransactionRejects ==
    [][(last'.op = "record_transaction") =>
          \A id \in Ids, a \in TxInputs, today \in Clock :
             (/\ \/ id \notin DictKeys(students)
                 \/ a[1] \notin {"income", "expense"}
              /\ RecordTransaction(id, a, today)) =>
             (~last'.ret /\ students' = students)]_vars

C9_Witness ==
    /\ last.op = "record_transaction"
    /\ ~last.ret
    /\ last.id \in DictKeys(students)
    /\ TotalTx(students) < MaxTx

\* C10: a successful record_transaction appends one transaction at the end
\* of the student's list, the list before being a strict prefix of the list
\* after, and leaves the student's name and every other student unchanged.
C10_RecordTransactionAppends ==
    [][(last'.op = "record_transaction" /\ last'.ret) =>
          LET i == DictIndex(students, last'.id)
              old == students[i].val.transactions
              new == students'[i].val.transactions
          IN  /\ i # 0
              /\ Len(students') = Len(students)
              /\ \A j \in DOMAIN students : j # i => students'[j] = students[j]
              /\ students'[i].key = students[i].key
              /\ students'[i].val.student_id = students[i].val.student_id
              /\ students'[i].val.name = students[i].val.name
              /\ Len(new) = Len(old) + 1
              /\ SubSeq(new, 1, Len(old)) = old]_vars

C10_Witness ==
    /\ last.op = "record_transaction"
    /\ last.ret
    /\ Len(students) = 2
    /\ Len(At(students, last.id).transactions) = 2
    /\ At(students, last.id).transactions[1]
          # At(students, last.id).transactions[2]

\* the entries of the document f for the student id, in file order
EntriesOf(f, id) ==
    { i \in DOMAIN f.doc.students : f.doc.students[i].student_id = id }

\* C11: after remove_student(id) returned true the transactions of the
\* removed student do not come back: an add_student(id, name) that follows
\* succeeds and gives a student with no transactions and balance 0, and so
\* does every successful add_student.
C11_RemovedTransactionsStayGone ==
    [][(last'.op = "add_student") =>
          /\ (last.op = "remove_student" /\ last.ret /\ last'.id = last.id)
                => last'.ret
          /\ last'.ret =>
                /\ At(students', last'.id).transactions = << >>
                /\ student_report(students', last'.id)[1].balance = 0
                /\ student_report(students', last'.id)[1].transactions = << >>
          ]_vars

\* S1 is back without transactions, while the file saved before its removal
\* still lists the transactions it had
C11_Witness ==
    /\ last.op = "add_student"
    /\ last.ret
    /\ last.id = "S1"
    /\ At(students, "S1").transactions = << >>
    /\ file.kind = "object"
    /\ \E i \in EntriesOf(file, "S1") :
          Len(file.doc.students[i].transactions) = MaxTx

\* the Student that a well-formed entry of a document describes
StudentOfEntry(e) ==
    [student_id |-> e.student_id, name |-> e.name,
     transactions |-> IF "transactions" \in DOMAIN e
                      THEN e.transactions ELSE << >>]

\* C12: a load that returns true replaces the whole in-memory state: the
\* ledger then holds the students of the file and no other, each with the
\* name and the transactions of its (last) entry in the file.
C12_LoadReplacesLedger ==
    [][(last'.op \in {"load", "fresh_load"} /\ last'.ret) =>
          LET entries == IF "students" \in DOMAIN file.doc
                         THEN file.doc.students ELSE << >>
          IN  /\ file.kind = "object"
              /\ DictKeys(students')
                    = { entries[i].student_id : i \in DOMAIN entries }
              /\ \A k \in DictKeys(students') :
                    \E i \in DOMAIN entries :
                       /\ entries[i].student_id = k
                       /\ \A j \in DOMAIN entries :
                             entries[j].student_id = k => j <= i
                       /\ At(students', k) = StudentOfEntry(entries[i])]_vars

C12_Witness ==
    /\ last.op = "load"
    /\ last.ret
    /\ file = save(students)
    /\ Len(students) = 1
    /\ students[1].key = "S1"
    /\ TotalTx(students) = 1

\* the document f lists the students of the ledger d and nothing else
FileHolds(f, d) ==
    /\ f.kind = "object"
    /\ DOMAIN f.doc = {"students"}
    /\ Len(f.doc.students) = Len(d)
    /\ \A i \in DOMAIN d :
          /\ f.doc.students[i].student_id = d[i].val.student_id
          /\ f.doc.students[i].name = d[i].val.name
          /\ f.doc.students[i].transactions = d[i].val.transactions

\* C13: after save has returned, the file holds the students and the
\* transactions of the current ledger and nothing of its earlier content,
\* and the in-memory ledger is as it was before the call.
C13_SaveOverwrites ==
    [][(last'.op = "save" /\ last'.ret) =>
          (students' = students /\ FileHolds(file', students))]_vars

\* a save of a ledger of one student, S2, that holds every transaction
C13_Witness ==
    /\ last.op = "save"
    /\ last.ret
    /\ Len(students) = 1
    /\ students[1].key = "S2"
    /\ TotalTx(students) = MaxTx
    /\ FileHolds(file, students)

\* C14: in every reachable state each key of the student mapping is the
\* student_id of the Student stored under it, and no two stored students
\* have the same id.
C14_KeyIsStudentId ==
    /\ \A i \in DOMAIN students : students[i].key = students[i].val.student_id
    /\ \A i, j \in DOMAIN students :
          students[i].val.student_id = students[j].val.student_id => i = j

\* a load that failed on the second entry of the file and kept the first
C14_Witness ==
    /\ last.op = "load"
    /\ ~last.ret
    /\ Len(students) = 1
    /\ students[1].key = "S2"
    /\ file.kind = "object"
    /\ "students" \in DOMAIN file.doc
    /\ Len(file.doc.students) = 2

\* C15: in every reachable state, also after a load, each stored
\* transaction has type income or expense and an amount with at most two
\* fractional digits.
C15_StoredTransactionsValid ==
    \A i \in DOMAIN students :
       \A j \in DOMAIN students[i].val.transactions :
          /\ students[i].val.transactions[j].ttype \in {"income", "expense"}
          /\ students[i].val.transactions[j].amount % 10 = 0

Last(q) == q[Len(q)]

\* the transactions of the scenario, as student_report lists them: an
\* income of 1500.505 dated 2024-01-10, then an expense of 200 dated
\* 2024-01-15 and described "Books"
ScenarioReported ==
    << [ttype |-> "income", amount |-> 1500510,
        description |-> "Income", date |-> "2024-01-10"],
       [ttype |-> "expense", amount |-> 200000,
        description |-> "Books", date |-> "2024-01-15"] >>

\* C16: record_transaction stores the amount rounded to 2 decimals (1500.505
\* is stored as 1500.51) and student_report returns every amount as it is
\* stored; after the income of 1500.505 and the expense of 200 on S1 the
\* report of S1 lists these two transactions in that order with balance
\* 1300.51.
C16_RoundedOnceAtWrite ==
    [][/\ (last'.op = "record_transaction" /\ last'.ret) =>
             \A id \in Ids, a \in TxInputs, today \in Clock :
                RecordTransaction(id, a, today) =>
                   LET stored == Last(At(students', id).transactions).amount
                   IN  /\ stored % 10 = 0
                       /\ stored - a[2] <= 5
                       /\ a[2] - stored <= 5
                       /\ (a[2] = 1500505) => stored = 1500510
       /\ (last'.op = "student_report" /\ last'.ret) =>
             LET txs == At(students', last'.id).transactions
                 rep == out'[1]
             IN  /\ Len(rep.transactions) = Len(txs)
                 /\ \A j \in DOMAIN txs :
                       rep.transactions[j].amount = txs[j].amount
                 /\ (/\ Len(txs) = 2
                     /\ txs[1].ttype = "income"
                     /\ txs[2].ttype = "expense") =>
                       (/\ rep.transactions = ScenarioReported
                        /\ rep.balance = 1300510)]_vars

C16_Witness ==
    /\ last.op = "student_report"
    /\ last.ret
    /\ last.id = "S1"
    /\ out[1].name = "Alice"
    /\ out[1].transactions = ScenarioReported
    /\ out[1].balance = 1300510

\* the ids of the ledger in the order of the dict
IdSeq(d) == [i \in 1..Len(d) |-> d[i].val.student_id]

\* C17: all_students_summary returns one entry per student of the ledger,
\* in the order in which the students were inserted (add_student puts the
\* student last, remove_student keeps the order of the others, so a student
\* removed and added again is last), each with the length of the student's
\* transaction list as its count.
C17_SummaryInInsertionOrder ==
    [][/\ (last'.op = "add_student" /\ last'.ret) =>
             IdSeq(students') = Append(IdSeq(students), last'.id)
       /\ (last'.op = "remove_student") =>
             IdSeq(students')
                = SelectSeq(IdSeq(students), LAMBDA k : k # last'.id)
       /\ (last'.op = "all_students_summary") =>
             /\ Len(out') = Len(students')
             /\ \A i \in DOMAIN out' :
                   /\ out'[i].student_id = IdSeq(students')[i]
                   /\ out'[i].name = students'[i].val.name
                   /\ out'[i].num_transactions
                         = Len(students'[i].val.transactions)
             /\ \A i, j \in DOMAIN out' :
                   out'[i].student_id = out'[j].student_id => i = j]_vars

\* the file was saved with S1 before S2; S1 has since been removed and
\* added again, and the summary lists it after S2
C17_Witness ==
    /\ last.op = "all_students_summary"
    /\ Len(out) = 2
    /\ out[1].student_id = "S2"
    /\ out[1].num_transactions = MaxTx
    /\ out[2].student_id = "S1"
    /\ out[2].num_transactions = 0
    /\ file.kind = "object"
    /\ "students" \in DOMAIN file.doc
    /\ Len(file.doc.students) = 2
    /\ file.doc.students[1].student_id = "S1"
    /\ file.doc.students[2].student_id = "S2"

\* C18: no operation is fatal to the process of run_cli: whatever fails,
\* a write failure of save included, the process never ends with an
\* unhandled exception.
C18_NoOperationIsFatal == pc # "aborted"

\* the transaction entries of the document f, as <<i, j>> positions
TxEntries(f) ==
    UNION { { <<i, j>> : j \in DOMAIN f.doc.students[i].transactions } :
            i \in { i \in DOMAIN f.doc.students :
                       "transactions" \in DOMAIN f.doc.students[i] } }

TxEntry(f, p) == f.doc.students[p[1]].transactions[p[2]]

\* a document of well-formed students whose transaction entries have the
\* fields amount, description and date, none unexpected, and a ttype that
\* is missing or invalid in at least one of them
TtypeIsOnlyDefect(f) ==
    /\ f.kind = "object"
    /\ "students" \in DOMAIN f.doc
    /\ \A i \in DOMAIN f.doc.students :
          {"student_id", "name"} \subseteq DOMAIN f.doc.students[i]
    /\ \A p \in TxEntries(f) :
          /\ TxFields \ {"ttype"} \subseteq DOMAIN TxEntry(f, p)
          /\ DOMAIN TxEntry(f, p) \subseteq TxFields
    /\ \E p \in TxEntries(f) :
          \/ "ttype" \notin DOMAIN TxEntry(f, p)
          \/ TxEntry(f, p).ttype \notin {"income", "expense"}

TtypeMissing(f) ==
    \E p \in TxEntries(f) : "ttype" \notin DOMAIN TxEntry(f, p)

\* C19 as stated: a load of a file whose transaction entries have an
\* invalid or a missing ttype returns true and stores every transaction.
C19_LoadAcceptsAnyTtype ==
    [][(last'.op \in {"load", "fresh_load"} /\ TtypeIsOnlyDefect(file)) =>
          (last'.ret /\ TotalTx(students') = Cardinality(TxEntries(file)))]_vars

\* C19 amended: load does not validate the value of ttype: when every
\* entry has a ttype, invalid ones included, load returns true and stores
\* the transactions of each student with the ttype of the file, unchanged;
\* when an entry has no ttype load returns false.
C19_LoadKeepsInvalidTtype ==
    [][(last'.op \in {"load", "fresh_load"} /\ TtypeIsOnlyDefect(file)) =>
          IF TtypeMissing(file)
          THEN ~last'.ret
          ELSE /\ last'.ret
               /\ students' # << >>
               /\ \A k \in DictKeys(students') :
                     \E i \in EntriesOf(file, k) :
                        At(students', k).transactions
                           = StudentOfEntry(file.doc.students[i]).transactions
          ]_vars

C19_Witness ==
    /\ last.op = "load"
    /\ last.ret
    /\ Len(students) = 1
    /\ \E j \in DOMAIN students[1].val.transactions :
          students[1].val.transactions[j].ttype = "transfer"

\* C20: when a session has ended by Exit with a save that succeeded, the
\* startup load of the next session returns true and the ledger it starts
\* with has the students of the ledger held at exit, in the same order,
\* with the same names and the same transactions in the same order.
C20_StatePersistsAcrossSessions ==
    [][(pc = "exited" /\ last'.op = "fresh_load") =>
          /\ last'.ret
          /\ IdSeq(students') = IdSeq(students)
          /\ \A i \in DOMAIN students :
                /\ students'[i].val.name = students[i].val.name
                /\ students'[i].val.transactions
                      = students[i].val.transactions]_vars

C20_Witness ==
    /\ last.op = "fresh_load"
    /\ last.ret
    /\ pc = "running"
    /\ file = save(students)
    /\ Len(students) = 2
    /\ Len(students[2].val.transactions) = MaxTx

====
